---- MODULE Spec2Model ----
(***************************************************************************)
(* Model of pyxsim/source_models.py: the photon-generation engines         *)
(* ThermalSourceModel, PowerLawSourceModel and LineSourceModel.            *)
(*                                                                         *)
(* Numbers.  Real quantities (energies, log-energies, uniform variates)    *)
(* are fixed-point integers in quarter units: the integer x stands for the *)
(* real x/4.  Ten to the power of a quarter-unit value is tabulated in     *)
(* Frac (4*10^(k/4), rounded).  Spectral values, emission measures and     *)
(* photon counts are plain integers.  Sequences are 1-based where numpy    *)
(* arrays are 0-based; offsets such as ibegin, ei, start_e keep the code's *)
(* 0-based values.                                                         *)
(*                                                                         *)
(* Random numbers.  A generator is a fixed stream of raw draws (tape, the  *)
(* stream selected by the seed) and a position in it.  Every draw of the   *)
(* code consumes one raw value and advances the position.                  *)
(*                                                                         *)
(* Scope.  process_data of the thermal engine is modelled for float        *)
(* metallicity and float trace-element abundances; setup_model is modelled *)
(* for floats and fields.  The instance record self holds the values that  *)
(* setup_model copies from its arguments and from the spectral model.      *)
(***************************************************************************)
EXTENDS Integers, Sequences, FiniteSets, TLC

\* ---------------------------------------------------------------- bounds
MaxCells == 2
TapeLen == 2
MaxPhotons == 2
MaxInitCap == 2
MaxCalls == 2
MaxElems == 2
MaxCols == 2
MaxBins == 3
MaxScale == 3
MaxBatches == 2

\* ------------------------------------------------------ program constants
BatchSize == 100

\* 4*10^(k/4) for k = 0..3, rounded: the fractional decade in quarter units
Frac == <<4, 7, 13, 22>>
Quarter == Len(Frac)
RawVals == 0..(Quarter - 1)

\* Python's None where the other values are strings; an absent number (a limit
\* configured as None) is the empty tuple and a present one the tuple of its value
None == "None"
Absent == <<>>
Some(v) == <<v>>
\* a parameter that is a float or the name of a field (alpha, sigma)
Float(v) == [isfloat |-> TRUE, v |-> v]
Field == [isfloat |-> FALSE, v |-> 0]

\* ------------------------------------------------------- array helpers
\* the recursive helpers split their argument in halves, so that the depth of
\* the recursion is the logarithm of its length
RECURSIVE Sum(_)
Sum(s) ==
    IF s = <<>> THEN 0
    ELSE IF Len(s) = 1 THEN s[1]
    ELSE Sum(SubSeq(s, 1, Len(s) \div 2)) + Sum(SubSeq(s, (Len(s) \div 2) + 1, Len(s)))

RECURSIVE Cumsum(_, _)
Cumsum(s, acc) ==
    IF s = <<>> THEN <<>> ELSE <<acc + Head(s)>> \o Cumsum(Tail(s), acc + Head(s))

RECURSIVE Ipow(_, _)
Ipow(b, n) == IF n = 0 THEN 1 ELSE b * Ipow(b, n - 1)

Zeros(n) == [i \in 1..n |-> 0]

Min(a, b) == IF a < b THEN a ELSE b

\* positions of s holding TRUE, ascending (np.where(cut)[0], 1-based)
RECURSIVE WhereFrom(_, _, _)
WhereFrom(s, lo, hi) ==
    IF lo > hi THEN <<>>
    ELSE IF lo = hi THEN (IF s[lo] THEN <<lo>> ELSE <<>>)
    ELSE WhereFrom(s, lo, (lo + hi) \div 2) \o WhereFrom(s, ((lo + hi) \div 2) + 1, hi)
Where(s) == WhereFrom(s, 1, Len(s))

\* a[mask]: the entries of a at the TRUE positions of mask
Select(a, mask) == LET w == Where(mask) IN [k \in 1..Len(w) |-> a[w[k]]]

\* ndarray.sort(): ascending
RECURSIVE InsertSorted(_, _)
InsertSorted(x, s) ==
    IF s = <<>> THEN <<x>>
    ELSE IF x <= Head(s) THEN <<x>> \o s
    ELSE <<Head(s)>> \o InsertSorted(x, Tail(s))
RECURSIVE SortAsc(_)
SortAsc(s) == IF s = <<>> THEN <<>> ELSE InsertSorted(Head(s), SortAsc(Tail(s)))

\* 10**x on quarter-unit fixed point
Pow10(x) == Ipow(10, x \div Quarter) * Frac[(x % Quarter) + 1]

\* np.log10 on the tabulated values
Log10(e) == CHOOSE x \in 0..(3 * Quarter) : Pow10(x) = e

\* ------------------------------------------------------------ the state
VARIABLES
    self,               \* the model instance: constructor arguments and setup_model fields
    chunk,              \* the data chunk: one record per sample
    caller,             \* who calls process_data: "direct" or "make_spectrum"
    pending,            \* chunks make_spectrum has still to visit
    acc,                \* make_spectrum's running spectrum (its local spec)
    error,              \* the exception that ended make_spectrum or setup_model, or None
    mode,               \* process_data's mode argument
    gens,               \* position of every random generator in its stream
    tape,               \* the raw stream of the generator self.prng draws from
    other_prng,         \* the generator a second model instance holds
    initial_capacity,   \* the first value of num_photons_max (10000000 in the code)
    ds,                 \* the dataset: the units of the fields the model names
    args,               \* the redshift and dist arguments of make_xray_fields
    factor,             \* the factor the caller scales every sample's emission by
    ncols,              \* 0 for a chunk of 1-D arrays, else the row length of its 2-D
                        \* arrays, of which chunk holds the samples in ravel order
    Zconvert,           \* self.Zconvert
    mconvert,           \* self.mconvert: key (position in var_elem) -> factor
    pc,                 \* position in process_data
    idxs, kT, cell_nrm, num_cells,
    number_of_photons, energies, num_photons_max, start_e, end_e, ei,
    cks,                \* the batches chunked() has produced: <<ibegin, iend>> each
    poisson_mean,       \* the lam argument of prng.poisson, one entry per sample
    ibegin, nck, icell, cell_n, cell_e,
    ret, spec, pbar,
    result,             \* what the current call returned
    results,            \* returned values of the finished calls, oldest first
    entry_state         \* the state of self.prng when the current call began

locals == <<idxs, kT, cell_nrm, num_cells, number_of_photons, poisson_mean, cks, energies,
            num_photons_max, start_e, end_e, ei, ibegin, nck, icell, cell_n,
            cell_e, ret, spec, cks>>
config == <<self, mode, tape, other_prng, initial_capacity, caller, ds, args, ncols, factor>>
conversion == <<Zconvert, mconvert>>
source == <<chunk, pending, acc, error>>
vars == <<config, conversion, source, gens, pc, locals, pbar, result, results, entry_state>>

\* ---------------------------------------------------- random generators
\* the numpy.random module, a RandomState the caller made and passes in, and
\* the RandomState each of the two instances makes from an integer seed
GenIds == {"np.random", "rs_user", "rs_self", "rs_other"}
PrngArgs == {None, "seed", "RandomState"}

\* soxs.utils.parse_prng as the class docstrings describe it: an integer seed
\* gives the instance a generator of its own, a RandomState object is taken as
\* it is, None gives the numpy.random module
parse_prng(prng, own) ==
    IF prng = None THEN "np.random"
    ELSE IF prng = "RandomState" THEN "rs_user"
    ELSE own

Raw(pos) == tape[(pos % TapeLen) + 1]
Advance(g, n) == [gens EXCEPT ![g] = (@ + n) % TapeLen]

\* prng.poisson(lam): no draw for lam = 0, otherwise a count from one raw draw
PoissonCount(lam, r) == IF lam = 0 THEN 0 ELSE r % (MaxPhotons + 1)
DrawsBefore(lams, i) == Cardinality({k \in 1..(i - 1) : lams[k] > 0})
PoissonVec(lams, pos) ==
    [i \in 1..Len(lams) |-> PoissonCount(lams[i], Raw(pos + DrawsBefore(lams, i)))]
PoissonDraws(lams) == DrawsBefore(lams, Len(lams) + 1)

UniformVecModule(n, pos) == [k \in 1..n |-> Raw(gens["np.random"] + k - 1)]

\* prng.uniform(size=n): n variates in [0,1), in quarter units
UniformVec(n, pos) == [k \in 1..n |-> Raw(pos + k - 1)]

\* ------------------------------------------------------ spectral binning
LinearBins == [ebins |-> <<4, 8, 12>>, emid |-> <<6, 10>>]
LogBins == [ebins |-> <<4, 13, 40>>, emid |-> <<8, 26>>]

De(ebins) == [i \in 1..(Len(ebins) - 1) |-> ebins[i + 1] - ebins[i]]
BinScale(ebins) ==
    IF \A i \in 1..(Len(ebins) - 1) : De(ebins)[i] = De(ebins)[1] THEN "linear" ELSE "log"
BinEdgesNoLog(ebins) == ebins

\* bin_edges = log10(ebins) on a log scale, else ebins
BinEdges(ebins) ==
    IF BinScale(ebins) = "log" THEN [i \in 1..Len(ebins) |-> Log10(ebins[i])] ELSE ebins
Nchan == Len(self.emid)

\* -------------------------------------------------------- spectral table
\* spectral_model.get_spectrum for one temperature: per-bin shapes, or None
\* (None is the empty tuple here)
Cspec(t) == IF ~self.spectral_model.cspec THEN Absent
            ELSE IF t = 1 THEN <<1, 1>> ELSE <<0, 2>>
Mspec(t) == IF ~self.spectral_model.mspec THEN Absent
            ELSE IF t = 1 THEN <<0, 1>> ELSE <<0, 0>>

\* vspec: one shape per trace element, or None
Vspec(t) == IF ~self.spectral_model.vspec THEN Absent
            ELSE [j \in 1..self.num_var_elem |-> IF t = 1 THEN <<j, 0>> ELSE <<0, 1>>]

\* metalZ for a float metallicity, line 434, and elemZ[j] for a float
\* abundance, line 448
MetalZ == self.Zmet.v
ElemZ(j) == self.var_elem[j].v

\* "elemZ[...]*vspec" with vspec None raises TypeError, line 486
CompositionRaises == self.num_var_elem > 0 /\ ~self.spectral_model.vspec

\* tot_spec for one sample, lines 480-486
TotSpec(t) ==
    [b \in 1..Nchan |->
        (IF Cspec(t) = Absent THEN 0 ELSE Cspec(t)[b])
      + (IF Mspec(t) = Absent THEN 0 ELSE MetalZ * Mspec(t)[b])
      + (IF self.num_var_elem > 0 /\ Vspec(t) # Absent
         THEN Sum([j \in 1..self.num_var_elem |-> ElemZ(j) * Vspec(t)[j][b]])
         ELSE 0)]

\* cp = insert(cumsum(p), 0, 0) with p = tot_spec/spec_sum, kept as the integer
\* numerators over the common denominator spec_sum
Cp(t) == <<0>> \o Cumsum(TotSpec(t), 0)
SpecSum(t) == Sum(TotSpec(t))

\* the bin a variate u = r/Quarter falls in: largest j with cp[j] <= u
BinOf(r, cp, ssum) ==
    CHOOSE j \in 1..(Len(cp) - 1) :
        /\ cp[j] * Quarter <= r * ssum
        /\ \A k \in (j + 1)..(Len(cp) - 1) : cp[k] * Quarter > r * ssum

\* np.interp(u, cp, fp)
Interp(r, cp, ssum, fp) ==
    IF r * ssum >= cp[Len(cp)] * Quarter THEN fp[Len(fp)]
    ELSE LET j == BinOf(r, cp, ssum) IN
         fp[j] + ((r * ssum - cp[j] * Quarter) * (fp[j + 1] - fp[j]))
                    \div (Quarter * (cp[j + 1] - cp[j]))

\* energies of one sample's cn photons
InvertCdf(t, cn, pos) ==
    LET randvec == SortAsc(UniformVec(cn, pos)) IN
    [k \in 1..cn |-> Interp(randvec[k], Cp(t), SpecSum(t), BinEdges(self.ebins))]
AcceptReject(t, cn, pos) ==
    LET u == UniformVec(cn, pos) IN
    [k \in 1..cn |-> self.emid[BinOf(u[k], Cp(t), SpecSum(t))]]
CellEnergies(t, cn, pos) ==
    IF self.method = "invert_cdf" THEN InvertCdf(t, cn, pos) ELSE AcceptReject(t, cn, pos)

\* --------------------------------------------------------- return values
ActiveCellsNonNegative(nph) == [i \in 1..Len(nph) |-> nph[i] >= 0]

\* active_cells = number_of_photons > 0
ActiveCells(nph) == [i \in 1..Len(nph) |-> nph[i] > 0]

NoneResult == [kind |-> "None"]
ArrayResult(a) == [kind |-> "array", data |-> a, shape |-> <<Len(a)>>]
\* an array of the given shape holding the values a in ravel order
Shaped(a, shape) == [kind |-> "array", data |-> a, shape |-> shape]
Raised(e) == [kind |-> "raise", exc |-> e]
Population(n, counts, ix, ee) ==
    [kind |-> "population", ncells |-> n, counts |-> counts, idxs |-> ix, energies |-> ee]

\* -------------------------------------------------------- thermal engine
\* orig_shape = chunk[self.temperature_field].shape
OrigShape == IF ncols = 0 THEN <<Len(chunk)>> ELSE <<Len(chunk) \div ncols, ncols>>

\* the filter of process_data; comparing an array with None raises TypeError
CutIgnoringDensity ==
    [i \in 1..Len(chunk) |->
        /\ chunk[i].kT >= self.kT_min[1] /\ chunk[i].kT <= self.kT_max[1]
        /\ (self.nh_field # None =>
               chunk[i].nH >= self.nH_min[1] /\ chunk[i].nH <= self.nH_max[1])]

FilterRaises ==
    \/ self.kT_min = Absent \/ self.kT_max = Absent
    \/ (self.nh_field # None /\ (self.nH_min = Absent \/ self.nH_max = Absent))
Cut ==
    [i \in 1..Len(chunk) |->
        /\ (self.max_density # Absent => chunk[i].density < self.max_density[1])
        /\ chunk[i].kT >= self.kT_min[1] /\ chunk[i].kT <= self.kT_max[1]
        /\ (self.nh_field # None =>
               chunk[i].nH >= self.nH_min[1] /\ chunk[i].nH <= self.nH_max[1])]

\* cell_nrm of one sample, lines 414-426: divided by nH when the class fixes
\* the normalisation
CellNrm(i) ==
    IF self.nh_field # None /\ self.fix_norm
    THEN (chunk[i].em * self.spectral_norm) \div chunk[i].nH
    ELSE chunk[i].em * self.spectral_norm

ResetLocals ==
    /\ idxs' = <<>> /\ kT' = <<>> /\ cell_nrm' = <<>> /\ num_cells' = 0
    /\ number_of_photons' = <<>> /\ energies' = <<>>
    /\ start_e' = 0 /\ end_e' = 0 /\ ei' = 0
    /\ ibegin' = 0 /\ nck' = 0 /\ icell' = 0 /\ cell_n' = <<>> /\ cell_e' = <<>>
    /\ ret' = <<>> /\ spec' = <<>> /\ poisson_mean' = <<>> /\ cks' = <<>>

\* process_data, lines 376-464: shape, filter, early returns, allocation
ThermalCall ==
    /\ pc = "idle" /\ self.engine = "thermal" /\ Len(results) < MaxCalls
    /\ LET orig_ncells == Len(chunk) IN
       IF orig_ncells = 0 THEN
            /\ result' = IF mode = "photons" THEN NoneResult ELSE ArrayResult(<<>>)
            /\ pc' = "done" /\ ResetLocals /\ UNCHANGED <<pbar, num_photons_max>>
       ELSE IF FilterRaises THEN
            /\ result' = Raised("TypeError")
            /\ pc' = "done" /\ ResetLocals /\ UNCHANGED <<pbar, num_photons_max>>
       ELSE IF Where(Cut) = <<>> THEN
            /\ result' = IF mode = "photons" THEN NoneResult
                         ELSE Shaped(Zeros(orig_ncells), OrigShape)
            /\ pbar' = IF mode = "photons" THEN pbar + orig_ncells ELSE pbar
            /\ pc' = "done" /\ ResetLocals /\ UNCHANGED num_photons_max
       ELSE
            /\ num_cells' = Len(Where(Cut))
            /\ pbar' = IF mode = "photons" THEN pbar + orig_ncells - Len(Where(Cut))
                       ELSE pbar
            /\ kT' = Select([i \in 1..orig_ncells |-> chunk[i].kT], Cut)
            /\ cell_nrm' = Select([i \in 1..orig_ncells |-> CellNrm(i)], Cut)
            /\ num_photons_max' = initial_capacity
            /\ number_of_photons' = Zeros(Len(Where(Cut)))
            /\ poisson_mean' = Zeros(Len(Where(Cut)))
            /\ cks' = <<>>
            /\ energies' = Zeros(initial_capacity)
            /\ start_e' = 0 /\ end_e' = 0 /\ ei' = 0
            /\ spec' = Zeros(Nchan)
            /\ ret' = Zeros(orig_ncells)
            /\ idxs' = Where(Cut)
            /\ ibegin' = 0 /\ nck' = 0 /\ icell' = 0 /\ cell_n' = <<>> /\ cell_e' = <<>>
            /\ result' = NoneResult
            /\ pc' = "batch"
    /\ entry_state' = gens[self.prng]
    /\ UNCHANGED <<config, conversion, source, gens, results>>

BatchEndWhole(first, n) == n

\* iend = ck[-1]+1 of the batch of chunked(range(n), 100) that starts at first
BatchEnd(first, n) == Min(first + BatchSize, n)

\* one pass of "for ck in chunked(range(num_cells), 100)", lines 466-498 and 523-536
ThermalBatch ==
    /\ pc = "batch" /\ ibegin < num_cells
    /\ LET iend == BatchEnd(ibegin, num_cells)
           n == iend - ibegin
           spec_sum == [i \in 1..n |-> SpecSum(kT[ibegin + i])]
           cell_norm == [i \in 1..n |-> spec_sum[i] * cell_nrm[ibegin + i]]
           pos == gens[self.prng]
       IN
       /\ nck' = n
       /\ cks' = Append(cks, <<ibegin, iend>>)
       /\ IF CompositionRaises THEN
              /\ result' = Raised("TypeError")
              /\ pc' = "done"
              /\ UNCHANGED <<gens, cell_n, number_of_photons, poisson_mean, end_e, ei, icell,
                             ret, spec, pbar, ibegin>>
          ELSE IF mode = "photons" THEN
              /\ cell_n' = PoissonVec(cell_norm, pos)
              /\ gens' = Advance(self.prng, PoissonDraws(cell_norm))
              /\ number_of_photons' =
                    [i \in 1..num_cells |->
                        IF i > ibegin /\ i <= iend
                        THEN PoissonVec(cell_norm, pos)[i - ibegin]
                        ELSE number_of_photons[i]]
              /\ poisson_mean' =
                    [i \in 1..num_cells |->
                        IF i > ibegin /\ i <= iend THEN cell_norm[i - ibegin]
                        ELSE poisson_mean[i]]
              /\ end_e' = end_e + Sum(PoissonVec(cell_norm, pos))
              /\ ei' = start_e
              /\ icell' = 0
              /\ pc' = "cell"
              /\ UNCHANGED <<ret, spec, pbar, ibegin, result>>
          ELSE
              /\ ret' = IF mode = "photon_field" THEN
                            [k \in 1..Len(ret) |->
                                IF \E i \in 1..n : idxs[ibegin + i] = k
                                THEN cell_norm[CHOOSE i \in 1..n : idxs[ibegin + i] = k]
                                ELSE ret[k]]
                        ELSE IF mode = "energy_field" THEN
                            [k \in 1..Len(ret) |->
                                IF \E i \in 1..n : idxs[ibegin + i] = k
                                THEN LET i == CHOOSE i \in 1..n : idxs[ibegin + i] = k
                                         t == kT[ibegin + i]
                                     IN Sum([b \in 1..Nchan |-> TotSpec(t)[b] * self.emid[b]])
                                            * cell_nrm[ibegin + i]
                                ELSE ret[k]]
                        ELSE ret
              /\ spec' = IF mode = "spectrum" THEN
                            [b \in 1..Nchan |->
                                spec[b] + Sum([i \in 1..n |->
                                    TotSpec(kT[ibegin + i])[b] * cell_nrm[ibegin + i]])]
                         ELSE spec
              /\ pbar' = pbar + n
              /\ ibegin' = iend
              /\ pc' = "batch"
              /\ UNCHANGED <<gens, cell_n, number_of_photons, poisson_mean, end_e, ei, icell,
                             result>>
    /\ UNCHANGED <<config, conversion, source, idxs, kT, cell_nrm, num_cells, energies,
                   num_photons_max, start_e, cell_e, results, entry_state>>

\* "for icell in range(nck)", lines 504-514: skip an empty sample or draw its energies
ThermalCell ==
    /\ pc = "cell" /\ icell < nck
    /\ LET cn == cell_n[icell + 1] IN
       IF cn = 0 THEN
            /\ icell' = icell + 1
            /\ UNCHANGED <<gens, cell_e, pc>>
       ELSE
            /\ cell_e' = CellEnergies(kT[ibegin + icell + 1], cn, gens[self.prng])
            /\ gens' = Advance(self.prng, cn)
            /\ pc' = "grow"
            /\ UNCHANGED icell
    /\ UNCHANGED <<config, conversion, source, idxs, kT, cell_nrm, num_cells,
                   number_of_photons, poisson_mean, cks, energies,
                   num_photons_max, start_e, end_e, ei, ibegin, nck, cell_n, ret, spec,
                   pbar, result, results, entry_state>>

\* "while ei+cn > num_photons_max: num_photons_max *= 2", lines 515-516
ThermalGrow ==
    /\ pc = "grow"
    /\ IF ei + cell_n[icell + 1] > num_photons_max
       THEN num_photons_max' = num_photons_max * 2 /\ pc' = "grow"
       ELSE num_photons_max' = num_photons_max /\ pc' = "resize"
    /\ UNCHANGED <<config, conversion, source, gens, idxs, kT, cell_nrm, num_cells,
                   number_of_photons, poisson_mean, cks,
                   energies, start_e, end_e, ei, ibegin, nck, icell, cell_n, cell_e,
                   ret, spec, pbar, result, results, entry_state>>

ResizeDiscarding(a, n) == [i \in 1..n |-> 0]

\* ndarray.resize(n, refcheck=False): in place, old content kept, zero filled
Resize(a, n) == [i \in 1..n |-> IF i <= Len(a) THEN a[i] ELSE 0]

\* "if num_photons_max > energies.size: energies.resize(...)", lines 517-518
ThermalResize ==
    /\ pc = "resize"
    /\ energies' = IF num_photons_max > Len(energies)
                   THEN Resize(energies, num_photons_max) ELSE energies
    /\ pc' = "write"
    /\ UNCHANGED <<config, conversion, source, gens, idxs, kT, cell_nrm, num_cells,
                   number_of_photons, poisson_mean, cks,
                   num_photons_max, start_e, end_e, ei, ibegin, nck, icell, cell_n,
                   cell_e, ret, spec, pbar, result, results, entry_state>>

\* "energies[ei:ei+cn] = cell_e; ei += cn", lines 519-520
ThermalWrite ==
    /\ pc = "write"
    /\ LET cn == cell_n[icell + 1] IN
       /\ energies' = [i \in 1..Len(energies) |->
                          IF i > ei /\ i <= ei + cn THEN cell_e[i - ei] ELSE energies[i]]
       /\ ei' = ei + cn
    /\ icell' = icell + 1
    /\ pc' = "cell"
    /\ UNCHANGED <<config, conversion, source, gens, idxs, kT, cell_nrm, num_cells,
                   number_of_photons, poisson_mean, cks,
                   num_photons_max, start_e, end_e, ibegin, nck, cell_n, cell_e,
                   ret, spec, pbar, result, results, entry_state>>

ThermalEndBatchNoAdvance ==
    /\ pc = "cell" /\ icell = nck
    /\ start_e' = start_e
    /\ pbar' = pbar + nck
    /\ ibegin' = ibegin + nck
    /\ pc' = "batch"
    /\ UNCHANGED <<config, conversion, source, gens, idxs, kT, cell_nrm, num_cells,
                   number_of_photons, poisson_mean, cks, energies, num_photons_max, end_e,
                   ei, nck, icell, cell_n, cell_e, ret, spec, result, results,
                   entry_state>>

\* end of a photons batch: "start_e = end_e", "pbar.update(nck)", lines 521 and 536
ThermalEndBatch ==
    /\ pc = "cell" /\ icell = nck
    /\ start_e' = end_e
    /\ pbar' = pbar + nck
    /\ ibegin' = ibegin + nck
    /\ pc' = "batch"
    /\ UNCHANGED <<config, conversion, source, gens, idxs, kT, cell_nrm, num_cells,
                   number_of_photons, poisson_mean, cks,
                   energies, num_photons_max, end_e, ei, nck, icell, cell_n, cell_e,
                   ret, spec, result, results, entry_state>>

ReturnedEnergiesWholeBuffer ==
    IF BinScale(self.ebins) = "log" THEN [i \in 1..Len(energies) |-> Pow10(energies[i])]
    ELSE energies

\* the returned energies: energies[:end_e], exponentiated on a log scale
ReturnedEnergies ==
    LET ee == SubSeq(energies, 1, end_e) IN
    IF BinScale(self.ebins) = "log" THEN [i \in 1..Len(ee) |-> Pow10(ee[i])] ELSE ee

\* lines 538-549: the return value
ThermalFinish ==
    /\ pc = "batch" /\ ibegin >= num_cells
    /\ result' =
        IF mode = "photons" THEN
            LET active_cells == ActiveCells(number_of_photons) IN
            Population(Len(Select(idxs, active_cells)),
                       Select(number_of_photons, active_cells),
                       Select(idxs, active_cells),
                       ReturnedEnergies)
        ELSE IF mode = "spectrum" THEN ArrayResult(spec)
        ELSE Shaped(ret, OrigShape)
    /\ pc' = "done"
    /\ UNCHANGED <<config, conversion, source, gens, locals, pbar, results, entry_state>>

\* the caller takes the value; the instance is ready for the next call
Return ==
    /\ pc = "done"
    /\ results' = Append(results, [out |-> result, entry |-> entry_state,
                                    lam |-> poisson_mean])
    /\ pc' = "idle"
    /\ UNCHANGED <<config, conversion, source, gens, locals, pbar, result, entry_state>>

\* ------------------------------------------------------ power-law engine
\* a/b for b > 0, rounded toward zero
Quot(a, b) == IF a >= 0 THEN a \div b ELSE -((-a) \div b)

\* floating-point infinity, the value of a division by zero
Inf == Ipow(10, 9)

PlawAlpha(i) == IF self.alpha.isfloat THEN self.alpha.v ELSE chunk[i].alpha

\* scale_factor = 1/(1+redshift), in quarter units
ScaleFactor == Quarter \div (1 + self.redshift)

\* norm_fac/(1-alpha) of lines 812-816 for the indices 0, 1 and 2, in tenths:
\* emax-emin, log(emax/emin)*e0 and (1/emin-1/emax)*e0**2
PlawNormFac(i) ==
    LET a == self.emin  b == self.emax  c == self.e0 IN
    IF PlawAlpha(i) = 0 THEN (10 * (b - a)) \div Quarter
    ELSE IF PlawAlpha(i) = 1
        THEN (23 * Log10((Quarter * b) \div a) * c) \div (Quarter * Quarter)
    ELSE (10 * (b - a) * c * c) \div (Quarter * a * b)

PlawNormOffset(i) == PlawNormFac(i) * chunk[i].em + 1

\* norm of line 815-816 for one sample
PlawNorm(i) == PlawNormFac(i) * chunk[i].em

\* the Poisson mean of one sample, line 820
PlawLam(i) == PlawNorm(i) * self.spectral_norm * ScaleFactor

\* one photon energy of sample i from the variate u = r/Quarter, lines 832-836,
\* for the indices 0, 1 and 2; emin, emax and e0 in quarter units
PlawEnergy(i, r) ==
    LET a == self.emin  b == self.emax  c == self.e0 IN
    IF PlawAlpha(i) = 1 THEN
        (a * Pow10((r * Log10((Quarter * b) \div a)) \div Quarter)) \div Quarter
    ELSE IF PlawAlpha(i) = 0 THEN
        a + (r * (b - a)) \div Quarter
    ELSE
        LET den == 64 * b + r * (a - b) * c * c IN
        IF den = 0 THEN Inf
        ELSE IF den > 0 THEN Quot(64 * a * b, den) ELSE -Quot(64 * a * b, -den)

Unscaled(e) == e

\* e * scale_factor with scale_factor = 1/(1+redshift)
Scaled(e) == IF e = Inf THEN e ELSE Quot(e, 1 + self.redshift)

RECURSIVE Concat(_)
Concat(ss) ==
    IF ss = <<>> THEN <<>>
    ELSE IF Len(ss) = 1 THEN ss[1]
    ELSE Concat(SubSeq(ss, 1, Len(ss) \div 2))
            \o Concat(SubSeq(ss, (Len(ss) \div 2) + 1, Len(ss)))

\* photons mode of PowerLawSourceModel.process_data, lines 803-843
PlawPhotons ==
    /\ pc = "idle" /\ self.engine = "powerlaw" /\ mode = "photons"
    /\ Len(results) < MaxCalls
    /\ LET n == Len(chunk)
           lam == [i \in 1..n |-> PlawLam(i)]
           pos == gens[self.prng]
           nph == PoissonVec(lam, pos)
           first == [i \in 1..n |-> pos + PoissonDraws(lam) + Sum(SubSeq(nph, 1, i - 1))]
           active_cells == ActiveCells(nph)
       IN
       /\ number_of_photons' = nph
       /\ poisson_mean' = lam
       /\ energies' = Concat([i \in 1..n |->
                          [k \in 1..nph[i] |->
                              Scaled(PlawEnergy(i, UniformVec(nph[i], first[i])[k]))]])
       /\ end_e' = Sum(nph)
       /\ gens' = Advance(self.prng, PoissonDraws(lam) + Sum(nph))
       /\ entry_state' = pos
       /\ result' = Population(Len(Where(active_cells)), Select(nph, active_cells),
                               active_cells, energies')
    /\ pc' = "done"
    /\ UNCHANGED <<config, conversion, source, idxs, kT, cell_nrm, num_cells,
                   num_photons_max, start_e, ei, cks,
                   ibegin, nck, icell, cell_n, cell_e, ret, spec, pbar, results>>

\* floating-point not-a-number, the value of 0*inf
NaN == -Inf

\* x*y in floating point for y >= 0
Times(x, y) == IF x = NaN THEN NaN ELSE x * y

\* norm_fac of lines 851-852 for the indices 0, 1 and 2, in tenths:
\* (emax**2-emin**2)/2, (emax-emin)*e0, and (1-1)*(e0**2/0) = 0*inf
PlawEnergyFac(i) ==
    LET a == self.emin  b == self.emax  c == self.e0 IN
    IF PlawAlpha(i) = 0 THEN (10 * (b * b - a * a)) \div (2 * Quarter * Quarter)
    ELSE IF PlawAlpha(i) = 1 THEN (10 * (b - a) * c) \div (Quarter * Quarter)
    ELSE NaN

\* (emid/e0)**(-alpha) for the indices 0, 1 and 2, in thousandths
PlawShape(e, alpha) == (1000 * Ipow(self.e0, alpha)) \div Ipow(e, alpha)

\* "chunk[...].v.sum()*(emid/self.e0.v)**(-alpha)", line 858: emid (one entry
\* per bin) against alpha (one entry per sample) under numpy broadcasting
PlawSpectrum ==
    LET n == Len(chunk)
        m == Len(self.emid)
        total == Sum([i \in 1..n |-> chunk[i].em])
    IN
    IF n # m /\ n # 1 /\ m # 1 THEN Raised("ValueError")
    ELSE ArrayResult([j \in 1..(IF n = 1 THEN m ELSE n) |->
            total * PlawShape(self.emid[IF m = 1 THEN 1 ELSE j],
                              PlawAlpha(IF n = 1 THEN 1 ELSE j))])

\* the modes photon_field, energy_field and spectrum of
\* PowerLawSourceModel.process_data, lines 845-858
PlawFields ==
    /\ pc = "idle" /\ self.engine = "powerlaw" /\ mode # "photons"
    /\ Len(results) < MaxCalls
    /\ result' =
        IF mode = "photon_field"
            THEN ArrayResult([i \in 1..Len(chunk) |-> PlawNorm(i)])
        ELSE IF mode = "energy_field"
            THEN ArrayResult([i \in 1..Len(chunk) |-> Times(PlawEnergyFac(i), chunk[i].em)])
        ELSE PlawSpectrum
    /\ pc' = "done"
    /\ entry_state' = gens[self.prng]
    /\ UNCHANGED <<config, conversion, source, gens, locals, pbar, results>>

\* ------------------------------------------------------------ line engine
\* prng.normal(loc=0, scale): the deviate of one raw draw, in units of scale
Normal(scale, r) == scale * (r - 1)

\* self.sigma is None, a quantity (here Float) or the name of a field
NoSigma == [isfloat |-> FALSE, v |-> -1]
LineSigma(i) == IF self.sigma.isfloat THEN self.sigma.v ELSE chunk[i].sigma

\* photons mode of LineSourceModel.process_data, lines 934-963
LinePhotons ==
    /\ pc = "idle" /\ self.engine = "line" /\ mode = "photons"
    /\ Len(results) < MaxCalls
    /\ LET n == Len(chunk)
           F == [i \in 1..n |-> chunk[i].em * self.spectral_norm * ScaleFactor]
           pos == gens[self.prng]
           nph == PoissonVec(F, pos)
           tot == Sum(nph)
           owner == Concat([i \in 1..n |-> [k \in 1..nph[i] |-> i]])
           dE == [k \in 1..tot |->
                    IF self.sigma = NoSigma THEN 0
                    ELSE Normal(LineSigma(owner[k]), Raw(pos + PoissonDraws(F) + k - 1))]
           active_cells == ActiveCells(nph)
       IN
       /\ number_of_photons' = nph
       /\ poisson_mean' = F
       /\ energies' = [k \in 1..tot |-> Scaled(self.e0 + dE[k])]
       /\ end_e' = tot
       /\ gens' = Advance(self.prng,
                          PoissonDraws(F) + (IF self.sigma = NoSigma THEN 0 ELSE tot))
       /\ entry_state' = pos
       /\ result' = Population(Len(Where(active_cells)), Select(nph, active_cells),
                               active_cells, energies')
    /\ pc' = "done"
    /\ UNCHANGED <<config, conversion, source, idxs, kT, cell_nrm, num_cells,
                   num_photons_max, start_e, ei, cks,
                   ibegin, nck, icell, cell_n, cell_e, ret, spec, pbar, results>>

\* np.searchsorted(a, v): the number of entries of a below v
SearchSorted(a, v) == Cardinality({j \in 1..Len(a) : a[j] < v})

\* np.interp(x, gx, gcdf): the normal distribution function at x standard
\* deviations, in percent, constant beyond the ends of gx
Gcdf(x) ==
    IF x <= -3 THEN 0 ELSE IF x >= 3 THEN 100
    ELSE <<2, 16, 50, 84, 98>>[x + 3]

\* ret[1:]-ret[:-1] for a line of width sigma
LineProfile(sigma) ==
    [b \in 1..(Len(self.ebins) - 1) |->
        Gcdf(Quot(self.ebins[b + 1] - self.e0, sigma))
            - Gcdf(Quot(self.ebins[b] - self.e0, sigma))]

\* spectrum mode, lines 975-993: a broadened line is spread by its profile, an
\* unbroadened one is stored at index searchsorted(ebins, e0)
LineSpectrum ==
    LET n == Len(chunk)
        nbins == Len(self.ebins) - 1
        total == Sum([i \in 1..n |-> chunk[i].em])
        idx == SearchSorted(self.ebins, self.e0)
    IN
    IF self.sigma = NoSigma THEN
        IF idx >= nbins THEN Raised("IndexError")
        ELSE ArrayResult([b \in 1..nbins |-> IF b = idx + 1 THEN total ELSE 0])
    ELSE IF self.sigma.isfloat THEN
        ArrayResult([b \in 1..nbins |-> total * LineProfile(self.sigma.v)[b]])
    ELSE
        ArrayResult([b \in 1..nbins |->
            Sum([i \in 1..n |-> chunk[i].em * LineProfile(chunk[i].sigma)[b]])])

\* the modes photon_field, energy_field and spectrum of
\* LineSourceModel.process_data, lines 965-993
LineFields ==
    /\ pc = "idle" /\ self.engine = "line" /\ mode # "photons"
    /\ Len(results) < MaxCalls
    /\ result' =
        IF mode = "photon_field"
            THEN ArrayResult([i \in 1..Len(chunk) |-> chunk[i].em])
        ELSE IF mode = "energy_field"
            THEN ArrayResult([i \in 1..Len(chunk) |-> self.e0 * chunk[i].em])
        ELSE LineSpectrum
    /\ pc' = "done"
    /\ entry_state' = gens[self.prng]
    /\ UNCHANGED <<config, conversion, source, gens, locals, pbar, results>>

\* ------------------------------------------------------------ setup_model
\* unit strings a dataset reports for an abundance field
Units == {"dimensionless", "", "code_metallicity", "Zsun", "g/cm**3"}

IsUnitlessAny(u) == TRUE

\* "in ["dimensionless", "", "code_metallicity"]", lines 308 and 325
IsUnitless(u) == u \in {"dimensionless", "", "code_metallicity"}

\* atomic_weights[1]/Zsum and atomic_weights[1]/m for the abundance table in
\* use: the factors from mass fraction to solar units (neither is 1)
ZsumFactor == 50
ElemFactor(j) == 100 * j

\* the first trace element, in dictionary order, that is a field of unknown units
BadElem ==
    {j \in 1..self.num_var_elem :
        ~self.var_elem[j].isfloat /\ ~IsUnitless(ds.var_elem[j]) /\ ds.var_elem[j] # "Zsun"}
FirstBadElem ==
    IF BadElem = {} THEN self.num_var_elem + 1
    ELSE CHOOSE j \in BadElem : \A k \in BadElem : j <= k

\* ThermalSourceModel.setup_model, lines 306-332: the conversion factors of the
\* metallicity field and of every trace-element field, or RuntimeError
SetupModel ==
    /\ pc = "new" /\ self.engine = "thermal"
    /\ LET zfield == ~self.nei /\ ~self.Zmet.isfloat
           zbad == zfield /\ ~IsUnitless(ds.Zmet) /\ ds.Zmet # "Zsun"
           done == {j \in 1..self.num_var_elem :
                       ~self.var_elem[j].isfloat /\ j < FirstBadElem}
       IN
       /\ Zconvert' = IF ~zfield \/ zbad THEN Zconvert
                       ELSE IF IsUnitless(ds.Zmet) THEN ZsumFactor ELSE 1
       /\ mconvert' = IF zbad THEN mconvert
                       ELSE [j \in done |->
                               IF IsUnitless(ds.var_elem[j]) THEN ElemFactor(j) ELSE 1]
       /\ IF zbad \/ FirstBadElem <= self.num_var_elem
          THEN error' = "RuntimeError" /\ pc' = "setup_failed"
          ELSE error' = error /\ pc' = "ready"
    /\ UNCHANGED <<config, chunk, pending, acc, gens, locals, pbar, result, results,
                   entry_state>>

\* ------------------------------------------------------ make_xray_fields
\* what dist can be: absent, a bare float, a (value, unit) tuple, a YTQuantity,
\* or something else (here a string)
DistKinds == {None, "float", "tuple", "YTQuantity", "str"}

\* "ds.quan(dist.value, dist.units)" succeeds; otherwise AttributeError
HasValueAndUnits(dist) == dist = "YTQuantity"

\* "ds.quan(*dist)" succeeds: dist unpacks into a value and a unit; unpacking
\* a float, or passing the characters of a string, raises TypeError
UnpacksToValueAndUnit(dist) == dist = "tuple"

\* the names of the fields the call registers
BaseFields == <<"emissivity", "luminosity", "photon_emissivity">>
IntensityFields == <<"intensity", "photon_intensity">>

\* SourceModel.make_xray_fields, lines 94-226
MakeXrayFields ==
    /\ pc = "fields"
    /\ result' =
        IF args.redshift > 0 \/ args.dist # None THEN
            IF args.dist = None THEN ArrayResult(BaseFields \o IntensityFields)
            ELSE IF HasValueAndUnits(args.dist) THEN ArrayResult(BaseFields \o IntensityFields)
            ELSE IF UnpacksToValueAndUnit(args.dist)
                 THEN ArrayResult(BaseFields \o IntensityFields)
            ELSE Raised("TypeError")
        ELSE ArrayResult(BaseFields)
    /\ pc' = "fields_done"
    /\ UNCHANGED <<config, conversion, source, gens, locals, pbar, results, entry_state>>

\* ------------------------------------------------- instances and callers
\* a new instance built with the same arguments: self.prng = parse_prng(prng)
Reconstruct ==
    /\ pc = "idle" /\ results # <<>>
    /\ gens' = IF self.prng_arg = "seed" THEN [gens EXCEPT ![self.prng] = 0] ELSE gens
    /\ UNCHANGED <<config, conversion, source, pc, locals, pbar, result, results, entry_state>>

\* the caller takes the value and calls again on the same chunk with the
\* emission measure (emission field) of every sample multiplied by factor
ReturnThenScale ==
    /\ pc = "done"
    /\ results' = Append(results, [out |-> result, entry |-> entry_state,
                                    lam |-> poisson_mean])
    /\ chunk' = [i \in 1..Len(chunk) |-> [chunk[i] EXCEPT !.em = factor * @]]
    /\ pc' = "idle"
    /\ UNCHANGED <<config, conversion, pending, acc, error, gens, locals, pbar, result,
                   entry_state>>

\* the second instance makes one draw from the generator it holds
OtherDraw ==
    /\ pc = "idle"
    /\ gens' = Advance(other_prng, 1)
    /\ UNCHANGED <<config, conversion, source, pc, locals, pbar, result, results, entry_state>>

\* --------------------------------------------------------- make_spectrum
\* "spec += r" under numpy broadcasting: r must have spec's length or length 1
Broadcastable(a, r) == Len(r) = Len(a) \/ Len(r) = 1
AddInPlace(a, r) == [b \in 1..Len(a) |-> a[b] + (IF Len(r) = 1 THEN r[1] ELSE r[b])]

\* ThermalSourceModel.make_spectrum, lines 369-372: accumulate the chunk's
\* spectrum and go on to the next chunk, or return after the last
MakeSpectrumStep ==
    /\ pc = "done" /\ caller = "make_spectrum"
    /\ IF result.kind = "raise" THEN
            /\ error' = result.exc /\ pc' = "failed"
            /\ UNCHANGED <<acc, chunk, pending>>
       ELSE IF ~Broadcastable(acc, result.data) THEN
            /\ error' = "ValueError" /\ pc' = "failed"
            /\ UNCHANGED <<acc, chunk, pending>>
       ELSE
            /\ acc' = AddInPlace(acc, result.data)
            /\ IF pending = <<>>
               THEN pc' = "returned" /\ UNCHANGED <<chunk, pending>>
               ELSE pc' = "idle" /\ chunk' = Head(pending) /\ pending' = Tail(pending)
            /\ UNCHANGED error
    /\ UNCHANGED <<config, conversion, gens, locals, pbar, result, results, entry_state>>

\* ---------------------------------------------------------- initial states
\* np.linspace(lo, hi, n+1) and the midpoints 0.5*(ebins[1:]+ebins[:-1])
Linspace(lo, hi, n) == [i \in 1..(n + 1) |-> lo + ((i - 1) * (hi - lo)) \div n]
Midpoints(ebins) == [i \in 1..(Len(ebins) - 1) |-> (ebins[i] + ebins[i + 1]) \div 2]
\* the bins of make_spectrum(data_source, emin, emax, nbins) for 1 to 7 keV
SpectrumBins(nbins) == Linspace(4, 28, nbins)

Methods == {"invert_cdf", "accept_reject"}
Binnings == {LinearBins, LogBins}
Modes == {"photons", "photon_field", "energy_field", "spectrum"}
Tapes == [1..TapeLen -> RawVals]
SeqsUpTo(S, n) == UNION {[1..k -> S] : k \in 0..n}

ThermalModel(method, bins, dmax, tmin, tmax, nh, prng) ==
    [engine |-> "thermal", method |-> method, ebins |-> bins.ebins, emid |-> bins.emid,
     max_density |-> dmax, kT_min |-> tmin, kT_max |-> tmax,
     nh_field |-> nh.field, nH_min |-> nh.min, nH_max |-> nh.max,
     nei |-> FALSE, Zmet |-> Float(1), var_elem |-> <<>>, num_var_elem |-> 0,
     spectral_model |-> [cspec |-> TRUE, mspec |-> TRUE, vspec |-> TRUE],
     fix_norm |-> FALSE,
     spectral_norm |-> 1, redshift |-> 0,
     prng_arg |-> prng, prng |-> parse_prng(prng, "rs_self")]
NoNh == [field |-> None, min |-> Absent, max |-> Absent]

Cell(t, d, n, e) == [kT |-> t, density |-> d, nH |-> n, em |-> e]
\* eligible samples (two temperatures, one without emission) and a too dense one
SamplingCells == {Cell(1, 0, 1, 1), Cell(2, 0, 1, 1), Cell(1, 0, 1, 0), Cell(1, 1, 1, 1)}
\* one eligible sample and one beyond each limit
FilterCells == {Cell(1, 0, 1, 1), Cell(1, 1, 1, 1), Cell(0, 0, 1, 1), Cell(3, 0, 1, 1),
                Cell(1, 0, 2, 2), Cell(1, 0, 3, 1)}
NhConfigs == {NoNh, [field |-> "nH", min |-> Some(1), max |-> Some(2)],
              [field |-> "nH", min |-> Absent, max |-> Absent]}

PlawModel(e0, alpha, z, prng) ==
    [engine |-> "powerlaw", e0 |-> e0, emin |-> 4, emax |-> 40, alpha |-> alpha,
     emid |-> Midpoints(SpectrumBins(2)),
     spectral_norm |-> 1, redshift |-> z,
     prng_arg |-> prng, prng |-> parse_prng(prng, "rs_self")]
PlawCells == [em : {0, 1}, alpha : {0, 1, 2}]

LineModel(sigma, z, prng) ==
    [engine |-> "line", e0 |-> 12, sigma |-> sigma, ebins |-> SpectrumBins(2),
     spectral_norm |-> 1, redshift |-> z,
     prng_arg |-> prng, prng |-> parse_prng(prng, "rs_self")]
LineCells == [em : {0, 1}, sigma : {1, 2}]
\* line energies against bins spanning 4..28: below the first edge, on an edge
\* or inside a bin, above the last edge
LineEnergies == {2, 12, 14, 40}

\* what every initial state shares: a constructed, set-up instance, no call made
NoDataset == [Zmet |-> "", var_elem |-> <<>>]
NoArgs == [redshift |-> 0, dist |-> None]
Idle == pc = "idle" /\ ds = NoDataset /\ args = NoArgs
Flat == ncols = 0 /\ factor = 1

Unset ==
    /\ Zconvert = 1 /\ mconvert = <<>>
    /\ gens = [g \in GenIds |-> 0]
    /\ tape \in Tapes
    /\ idxs = <<>> /\ kT = <<>> /\ cell_nrm = <<>> /\ num_cells = 0
    /\ number_of_photons = <<>> /\ energies = <<>> /\ num_photons_max = initial_capacity
    /\ start_e = 0 /\ end_e = 0 /\ ei = 0 /\ poisson_mean = <<>> /\ cks = <<>>
    /\ ibegin = 0 /\ nck = 0 /\ icell = 0 /\ cell_n = <<>> /\ cell_e = <<>>
    /\ ret = <<>> /\ spec = <<>> /\ pbar = 0
    /\ result = NoneResult /\ results = <<>>
    /\ entry_state = 0
    /\ error = None

Direct == caller = "direct" /\ pending = <<>> /\ acc = <<>>

\* photons mode of the thermal engine: every method, scale, capacity and stream
InitSampling ==
    /\ Flat
    /\ self \in {ThermalModel(m, b, Some(1), Some(1), Some(2), NoNh, "seed") : m \in Methods, b \in Binnings}
    /\ mode = "photons"
    /\ chunk \in SeqsUpTo(SamplingCells, MaxCells)
    /\ initial_capacity \in 1..MaxInitCap
    /\ other_prng = "rs_other"
    /\ Direct /\ Idle /\ Unset

\* every mode under every configuration of the limits
InitFilter ==
    /\ \E d \in {Absent, Some(1)}, lo \in {Absent, Some(1)}, hi \in {Absent, Some(2)},
          nh \in NhConfigs, fix \in BOOLEAN :
          /\ fix => nh.field # None
          /\ self = [ThermalModel("invert_cdf", LinearBins, d, lo, hi, nh, "seed")
                        EXCEPT !.fix_norm = fix]
    /\ mode \in Modes
    /\ chunk \in SeqsUpTo(FilterCells, MaxCells)
    /\ ncols \in {c \in 0..MaxCols : c > 0 => Len(chunk) % c = 0}
    /\ factor = 1
    /\ initial_capacity = MaxInitCap
    /\ other_prng = "rs_other"
    /\ tape = [i \in 1..TapeLen |-> 1]
    /\ Direct /\ Idle /\ Unset

\* make_spectrum over a data source of one or two chunks
InitMakeSpectrum ==
    /\ Flat
    /\ self = ThermalModel("invert_cdf", LinearBins, Some(1), Some(1), Some(2), NoNh, "seed")
    /\ mode = "spectrum"
    /\ caller = "make_spectrum"
    /\ chunk \in SeqsUpTo({Cell(1, 0, 1, 1), Cell(1, 1, 1, 1)}, MaxCells)
    /\ pending \in SeqsUpTo(SeqsUpTo({Cell(2, 0, 1, 1), Cell(1, 1, 1, 1)}, MaxCells), 1)
    /\ acc = Zeros(Len(self.emid))
    /\ initial_capacity = MaxInitCap
    /\ other_prng = "rs_other"
    /\ tape = [i \in 1..TapeLen |-> 1]
    /\ Idle /\ Unset

InitPlaw ==
    /\ Flat
    /\ self \in {PlawModel(e0, a, z, "seed") :
                    e0 \in {4, 8}, a \in {Float(1), Field}, z \in {0, 1}}
    /\ mode = "photons"
    /\ chunk \in SeqsUpTo(PlawCells, MaxCells)
    /\ initial_capacity = MaxInitCap
    /\ other_prng = "rs_other"
    /\ Direct /\ Idle /\ Unset

InitLine ==
    /\ Flat
    /\ self \in {LineModel(s, z, "seed") : s \in {NoSigma, Float(1), Field}, z \in {0, 1}}
    /\ mode = "photons"
    /\ chunk \in SeqsUpTo(LineCells, MaxCells)
    /\ initial_capacity = MaxInitCap
    /\ other_prng = "rs_other"
    /\ Direct /\ Idle /\ Unset

\* a constructed thermal instance on which setup_model has not yet run: NEI or
\* not, metallicity and up to two trace elements given as floats or as fields
InitSetup ==
    /\ Flat
    /\ \E nei \in BOOLEAN, Z \in {Float(1), Field},
          ve \in SeqsUpTo({Float(1), Field}, MaxElems) :
          self = [ThermalModel("invert_cdf", LinearBins, Some(1), Some(1), Some(2), NoNh,
                               "seed")
                    EXCEPT !.nei = nei, !.Zmet = Z, !.var_elem = ve,
                           !.num_var_elem = Len(ve)]
    /\ ds \in [Zmet : Units, var_elem : [1..self.num_var_elem -> Units]]
    /\ pc = "new"
    /\ args = NoArgs
    /\ mode = "photons"
    /\ chunk = <<>>
    /\ initial_capacity = MaxInitCap
    /\ other_prng = "rs_other"
    /\ tape = [i \in 1..TapeLen |-> 1]
    /\ Direct /\ Unset

\* a call of make_xray_fields with every kind of dist, at redshift 0 and above
InitFields ==
    /\ Flat
    /\ self \in {ThermalModel("invert_cdf", LinearBins, Some(1), Some(1), Some(2), NoNh, "seed"),
                  PlawModel(4, Float(1), 0, "seed"), LineModel(NoSigma, 0, "seed")}
    /\ args \in [redshift : {0, 1}, dist : DistKinds]
    /\ pc = "fields"
    /\ ds = NoDataset
    /\ mode = "photons"
    /\ chunk = <<>>
    /\ initial_capacity = MaxInitCap
    /\ other_prng = "rs_other"
    /\ tape = [i \in 1..TapeLen |-> 1]
    /\ Direct /\ Unset

\* every combination of present and absent spectral components, with up to
\* MaxElems trace elements of float abundance
InitComposition ==
    /\ Flat
    /\ \E sm \in [cspec : BOOLEAN, mspec : BOOLEAN, vspec : BOOLEAN],
          ve \in SeqsUpTo({Float(1), Float(2)}, MaxElems) :
          self = [ThermalModel("invert_cdf", LinearBins, Some(1), Some(1), Some(2), NoNh,
                               "seed")
                    EXCEPT !.spectral_model = sm, !.var_elem = ve,
                           !.num_var_elem = Len(ve)]
    /\ mode \in Modes
    /\ chunk \in SeqsUpTo({Cell(1, 0, 1, 1), Cell(2, 0, 1, 1)}, MaxCells)
    /\ initial_capacity = MaxInitCap
    /\ other_prng = "rs_other"
    /\ tape = [i \in 1..TapeLen |-> 1]
    /\ Direct /\ Idle /\ Unset

\* chunks that take more than one batch: an ineligible sample, then n eligible
\* ones of alternating temperature, every third without emission
BatchedChunk(n) ==
    <<Cell(1, 1, 1, 1)>>
        \o [i \in 1..n |-> Cell(1 + (i % 2), 0, 1, IF i % 3 = 0 THEN 0 ELSE 1)]
InitBatches ==
    /\ Flat
    /\ self \in {ThermalModel(m, LinearBins, Some(1), Some(1), Some(2), NoNh, "seed") :
                    m \in Methods}
    /\ mode \in Modes
    /\ chunk \in {BatchedChunk(b * BatchSize + d) : b \in 1..MaxBatches, d \in {0, 1}}
    /\ initial_capacity = MaxInitCap
    /\ other_prng = "rs_other"
    /\ tape \in {[i \in 1..TapeLen |-> 1], [i \in 1..TapeLen |-> i % Quarter]}
    /\ Direct /\ Idle /\ Unset

\* the field and spectrum modes of the power-law and line engines, called
\* directly with the bins make_spectrum would pass
InitOtherModes ==
    /\ Flat
    /\ \E nbins \in 1..MaxBins :
        \/ /\ \E e0 \in {4, 8}, a \in {Float(1), Field} :
                 self = [PlawModel(e0, a, 0, "seed")
                            EXCEPT !.emid = Midpoints(SpectrumBins(nbins))]
           /\ chunk \in SeqsUpTo(PlawCells, MaxCells)
        \/ /\ \E sg \in {NoSigma, Float(4), Field}, e0 \in LineEnergies :
                 /\ sg # NoSigma => e0 = 12
                 /\ self = [LineModel(sg, 0, "seed")
                               EXCEPT !.ebins = SpectrumBins(nbins), !.e0 = e0]
           /\ chunk \in SeqsUpTo(LineCells, MaxCells)
    /\ mode \in Modes \ {"photons"}
    /\ initial_capacity = MaxInitCap
    /\ other_prng = "rs_other"
    /\ tape = [i \in 1..TapeLen |-> 1]
    /\ Direct /\ Idle /\ Unset

\* make_spectrum of the power-law and line engines over one or two chunks
InitOtherMakeSpectrum ==
    /\ Flat
    /\ \E nbins \in 1..MaxBins :
        /\ \/ /\ \E a \in {Float(1), Field} :
                    self = [PlawModel(4, a, 0, "seed")
                               EXCEPT !.emid = Midpoints(SpectrumBins(nbins))]
              /\ chunk \in SeqsUpTo(PlawCells, MaxCells)
              /\ pending \in SeqsUpTo({<<[em |-> 1, alpha |-> 1]>>}, 1)
           \/ /\ self = [LineModel(NoSigma, 0, "seed") EXCEPT !.ebins = SpectrumBins(nbins)]
              /\ chunk \in SeqsUpTo(LineCells, MaxCells)
              /\ pending \in SeqsUpTo({<<[em |-> 1, sigma |-> 1]>>}, 1)
        /\ acc = Zeros(nbins)
    /\ mode = "spectrum"
    /\ caller = "make_spectrum"
    /\ initial_capacity = MaxInitCap
    /\ other_prng = "rs_other"
    /\ tape = [i \in 1..TapeLen |-> 1]
    /\ Idle /\ Unset

Init == InitSampling \/ InitFilter \/ InitMakeSpectrum \/ InitPlaw \/ InitLine
            \/ InitSetup \/ InitFields \/ InitOtherModes \/ InitOtherMakeSpectrum
            \/ InitBatches \/ InitComposition

Thermal ==
    \/ ThermalCall \/ ThermalBatch \/ ThermalCell \/ ThermalGrow \/ ThermalResize
    \/ ThermalWrite \/ ThermalEndBatch \/ ThermalFinish

Next == Thermal \/ PlawPhotons \/ LinePhotons \/ MakeSpectrumStep \/ SetupModel
            \/ MakeXrayFields \/ PlawFields \/ LineFields

Spec == Init /\ [][Next]_vars

\* repeated calls, rebuilt instances and a second instance drawing in between
InitCalls ==
    /\ Flat
    /\ \E prng \in PrngArgs :
        \/ /\ self \in {ThermalModel(m, LinearBins, Some(1), Some(1), Some(2), NoNh, prng) : m \in Methods}
           /\ chunk \in {<<Cell(1, 0, 1, 1)>>, <<Cell(2, 0, 1, 1), Cell(1, 0, 1, 1)>>}
        \/ /\ self = PlawModel(4, Float(1), 0, prng)
           /\ chunk = <<[em |-> 1, alpha |-> 1]>>
        \/ /\ self = LineModel(Float(1), 0, prng)
           /\ chunk = <<[em |-> 1, sigma |-> 1]>>
    /\ mode = "photons"
    /\ initial_capacity = MaxInitCap
    /\ other_prng \in {parse_prng(a, "rs_other") : a \in PrngArgs}
    /\ Direct /\ Idle /\ Unset

NextCalls == Thermal \/ PlawPhotons \/ LinePhotons \/ Return \/ Reconstruct \/ OtherDraw

SpecCalls == InitCalls /\ [][NextCalls]_vars

\* two calls in every mode of every engine, the second with the emission of
\* every sample multiplied by factor
InitScale ==
    /\ ncols = 0
    /\ factor \in 0..MaxScale
    /\ \/ /\ self \in {ThermalModel(m, b, Some(1), Some(1), Some(2), NoNh, "seed") :
                            m \in Methods, b \in Binnings}
          /\ chunk \in SeqsUpTo(SamplingCells, MaxCells)
       \/ /\ \E e0 \in {4, 8}, a \in {Float(1), Field}, z \in {0, 1}, nbins \in 1..MaxBins :
                self = [PlawModel(e0, a, z, "seed")
                           EXCEPT !.emid = Midpoints(SpectrumBins(nbins))]
          /\ chunk \in SeqsUpTo(PlawCells, MaxCells)
       \/ /\ \E sg \in {NoSigma, Float(4), Field}, z \in {0, 1}, nbins \in 1..MaxBins :
                self = [LineModel(sg, z, "seed") EXCEPT !.ebins = SpectrumBins(nbins)]
          /\ chunk \in SeqsUpTo(LineCells, MaxCells)
    /\ mode \in Modes
    /\ initial_capacity = MaxInitCap
    /\ other_prng = "rs_other"
    /\ tape = [i \in 1..TapeLen |-> 1]
    /\ Direct /\ Idle /\ Unset

NextScale ==
    Thermal \/ PlawPhotons \/ PlawFields \/ LinePhotons \/ LineFields \/ ReturnThenScale

SpecScale == InitScale /\ [][NextScale]_vars

\* ======================================================================
\* Properties of process_data and make_spectrum
\* ======================================================================
IsThermal == self.engine = "thermal"
IsPopulation == result.kind = "population"

\* sample i of the chunk satisfies every limit that is configured
WithinLimits(i) ==
    /\ (self.max_density # Absent => chunk[i].density < self.max_density[1])
    /\ (self.kT_min # Absent => chunk[i].kT >= self.kT_min[1])
    /\ (self.kT_max # Absent => chunk[i].kT <= self.kT_max[1])
    /\ (self.nh_field # None /\ self.nH_min # Absent => chunk[i].nH >= self.nH_min[1])
    /\ (self.nh_field # None /\ self.nH_max # Absent => chunk[i].nH <= self.nH_max[1])
\* the chunk has zero samples, or the filter mask is computed and entirely false
NoEligibleSample ==
    \/ Len(chunk) = 0
    \/ (~FilterRaises /\ \A i \in 1..Len(chunk) : ~WithinLimits(i))

\* C1: a returned population has as many energies as the sum of its per-sample
\* photon counts, in the thermal, power-law and line engines.
PopulationSumsToEnergies ==
    IsPopulation => Len(result.energies) = Sum(result.counts)

\* a thermal population of two or more photons whose buffer had to grow and
\* in which an eligible sample got no photon
WitnessPopulationSums ==
    /\ IsPopulation /\ IsThermal
    /\ Len(result.energies) >= 2
    /\ num_photons_max > initial_capacity
    /\ result.ncells < num_cells

EmptyFilterGivesZeroSpectrum ==
    /\ (IsThermal /\ mode = "spectrum" /\ pc = "done" /\ NoEligibleSample)
            => result = ArrayResult(Zeros(Nchan))
    /\ (IsThermal /\ caller = "make_spectrum" => pc # "failed")

\* C5: with accept_reject every returned thermal photon energy is the midpoint
\* energy of a spectral bin, on a linear and on a log scale.
AcceptRejectGivesMidpoints ==
    (IsThermal /\ IsPopulation /\ self.method = "accept_reject")
        => \A k \in 1..Len(result.energies) :
               \E b \in 1..Nchan : result.energies[k] = self.emid[b]

\* the energies a thermal call returns when the buffer never has to grow: the
\* energies drawn for each eligible sample, in sample order (one batch)
DrawnEnergies ==
    LET lam == [i \in 1..num_cells |-> SpecSum(kT[i]) * cell_nrm[i]]
        first == [i \in 1..num_cells |->
                    entry_state + PoissonDraws(lam)
                        + Sum(SubSeq(number_of_photons, 1, i - 1))]
        ee == Concat([i \in 1..num_cells |->
                        CellEnergies(kT[i], number_of_photons[i], first[i])])
    IN IF BinScale(self.ebins) = "log" THEN [k \in 1..Len(ee) |-> Pow10(ee[k])] ELSE ee

\* C6: whatever the initial capacity and however often the buffer grew, the
\* returned energies are those of a run whose buffer never had to grow.
GrowthPreservesEnergies ==
    (IsThermal /\ IsPopulation /\ num_cells <= BatchSize)
        => result.energies = DrawnEnergies

\* a population of three or more photons whose buffer was doubled at least twice
WitnessGrowth ==
    /\ IsThermal /\ IsPopulation
    /\ Len(result.energies) >= 3
    /\ num_photons_max >= 4 * initial_capacity

\* C7 as the specification states it: for a fixed seed, all calls with
\* identical inputs return identical values.
RepeatedCallsIdentical ==
    self.prng_arg = "seed" =>
        \A i, j \in 1..Len(results) : results[i].out = results[j].out

\* C7 as amended: for a fixed seed, the returned value is a function of the
\* chunk inputs and of the generator's state when the call begins, so two runs
\* that start from the seeded state return identical values.
SameEntryStateSameOutput ==
    self.prng_arg = "seed" =>
        \A i, j \in 1..Len(results) :
            results[i].entry = results[j].entry => results[i].out = results[j].out

\* two finished calls of a seeded instance from the same generator state, each
\* returning photons
WitnessSameEntryState ==
    /\ self.prng_arg = "seed" /\ Len(results) = 2
    /\ results[1].entry = results[2].entry
    /\ results[1].out.energies # <<>>
    /\ gens["np.random"] # 0

\* C8: a draw made by one model instance never advances the generator another
\* instance draws from.
GeneratorNeverShared == [][OtherDraw => gens'[self.prng] = gens[self.prng]]_vars

\* C9: an absent limit never makes process_data fail, and the samples processed
\* are exactly those that satisfy every limit that is present.
AbsentLimitIsSkipped ==
    (IsThermal /\ pc = "done" /\ Len(chunk) > 0) =>
        /\ result.kind # "raise"
        /\ idxs # <<>> => idxs = Where([i \in 1..Len(chunk) |-> WithinLimits(i)])

\* C10: every energy that thermal photons mode returns with invert_cdf lies
\* within [ebins[0], ebins[-1]].
InvertCdfWithinEdges ==
    (IsThermal /\ IsPopulation /\ self.method = "invert_cdf")
        => \A k \in 1..Len(result.energies) :
               /\ result.energies[k] >= self.ebins[1]
               /\ result.energies[k] <= self.ebins[Len(self.ebins)]

\* an invert_cdf population on the log scale with an energy strictly inside a bin
WitnessInvertCdf ==
    /\ IsThermal /\ IsPopulation /\ self.method = "invert_cdf"
    /\ BinScale(self.ebins) = "log"
    /\ \E k \in 1..Len(result.energies) :
           \A b \in 1..Len(self.ebins) : result.energies[k] # self.ebins[b]

\* C11: in setup_model of a non-NEI thermal model, a metallicity field or a
\* trace-element field whose units are neither unitless/code units nor "Zsun"
\* ends setup with a RuntimeError, and units of "Zsun" give a factor of 1.
UnknownUnitsAbortSetup ==
    (IsThermal /\ ~self.nei /\ pc \in {"ready", "setup_failed"}) =>
        /\ ((\/ ~self.Zmet.isfloat /\ ds.Zmet = "g/cm**3"
             \/ \E j \in 1..self.num_var_elem :
                    ~self.var_elem[j].isfloat /\ ds.var_elem[j] = "g/cm**3")
                => pc = "setup_failed" /\ error = "RuntimeError")
        /\ (~self.Zmet.isfloat /\ ds.Zmet = "Zsun" => Zconvert = 1)
        /\ \A j \in DOMAIN mconvert : ds.var_elem[j] = "Zsun" => mconvert[j] = 1
        /\ (pc = "ready" =>
                \A j \in 1..self.num_var_elem :
                    ~self.var_elem[j].isfloat => j \in DOMAIN mconvert)

\* setup stopped at a trace-element field of unknown units after it had set the
\* factor 1 for a metallicity field in solar units
WitnessUnknownUnits ==
    /\ IsThermal /\ ~self.nei /\ pc = "setup_failed" /\ error = "RuntimeError"
    /\ ~self.Zmet.isfloat /\ ds.Zmet = "Zsun" /\ Zconvert = 1
    /\ self.num_var_elem = 2 /\ ~self.var_elem[2].isfloat /\ ds.var_elem[2] = "g/cm**3"
    /\ 1 \in DOMAIN mconvert /\ mconvert[1] = 1

\* C12: every photon energy the power-law engine returns lies within
\* [emin, emax] times the scale factor 1/(1+redshift), for every reference
\* energy e0 and every index alpha.
PlawEnergiesWithinRange ==
    (IsPopulation /\ self.engine = "powerlaw") =>
        \A k \in 1..Len(result.energies) :
            /\ result.energies[k] >= Scaled(self.emin)
            /\ result.energies[k] <= Scaled(self.emax)

\* C13: make_xray_fields accepts dist as a bare float, as a (value, unit) tuple
\* or as a quantity with units, and raises TypeError only for an argument that
\* is none of these.
DistAcceptedForms ==
    pc = "fields_done" =>
        (result.kind = "raise" <=> args.dist \notin {None, "float", "tuple", "YTQuantity"})

\* the limits are all configured, so that the filter mask is computed
LimitsPresent ==
    /\ self.kT_min # Absent /\ self.kT_max # Absent
    /\ (self.nh_field # None => self.nH_min # Absent /\ self.nH_max # Absent)

\* the value photon_field (energy_field) holds for sample i of the chunk
FieldValue(i) ==
    IF mode = "photon_field"
    THEN SpecSum(chunk[i].kT) * CellNrm(i)
    ELSE Sum([b \in 1..Nchan |-> TotSpec(chunk[i].kT)[b] * self.emid[b]]) * CellNrm(i)

\* C14: in thermal photon_field and energy_field modes the returned array has
\* the original shape of the chunk, holds each eligible sample's value at that
\* sample's position and zero at every ineligible sample's.
FieldHasOriginalShape ==
    (IsThermal /\ mode \in {"photon_field", "energy_field"} /\ pc = "done"
        /\ LimitsPresent) =>
        /\ result.kind = "array"
        /\ result.shape = OrigShape
        /\ Len(result.data) = Len(chunk)
        /\ \A i \in 1..Len(chunk) :
               result.data[i] = IF WithinLimits(i) THEN FieldValue(i) ELSE 0

\* the same for every chunk that holds at least one sample
FieldHasOriginalShapeNonEmpty ==
    Len(chunk) > 0 => FieldHasOriginalShape

\* C15: multiplying the emission of every sample by k multiplies the
\* photon_field, energy_field and spectrum outputs by k, and in photons mode
\* each sample's Poisson mean, in the thermal, power-law and line engines.
ScalingEmissionScalesOutput ==
    Len(results) = 2 =>
        LET first == results[1]  second == results[2] IN
        IF mode = "photons" THEN
            /\ Len(second.lam) = Len(first.lam)
            /\ \A i \in 1..Len(first.lam) : second.lam[i] = factor * first.lam[i]
        ELSE
            /\ second.out.kind = first.out.kind
            /\ first.out.kind = "array" =>
                  /\ Len(second.out.data) = Len(first.out.data)
                  /\ \A i \in 1..Len(first.out.data) :
                        second.out.data[i] = Times(first.out.data[i], factor)

\* a second spectrum call whose every entry is k times the first call's, for an
\* engine, a k > 1 and a chunk of two samples with emission
WitnessScaling ==
    /\ Len(results) = 2 /\ factor > 1 /\ Len(chunk) = 2
    /\ mode = "spectrum" /\ self.engine = "powerlaw"
    /\ results[1].out.kind = "array"
    /\ \E b \in 1..Len(results[1].out.data) :
           results[1].out.data[b] > 0 /\ results[2].out.data[b] = factor * results[1].out.data[b]

\* a second photons call whose Poisson means are k times the first call's
WitnessScalingMean ==
    /\ Len(results) = 2 /\ factor > 1 /\ mode = "photons" /\ IsThermal
    /\ \E i \in 1..Len(results[1].lam) :
           results[1].lam[i] > 0 /\ results[2].lam[i] = factor * results[1].lam[i]

\* C16: in the line engine's photons mode with sigma None, every returned
\* energy is the line energy e0 times 1/(1+redshift).
UnbroadenedLineEnergies ==
    (IsPopulation /\ self.engine = "line" /\ self.sigma = NoSigma) =>
        \A j \in 1..Len(result.energies) :
            result.energies[j] * (1 + self.redshift) = self.e0

\* an unbroadened line at redshift 1 whose two samples returned three or more
\* photons
WitnessUnbroadenedLine ==
    /\ IsPopulation /\ self.engine = "line" /\ self.sigma = NoSigma
    /\ self.redshift = 1 /\ result.ncells = 2 /\ Len(result.energies) >= 3

\* the energies a thermal call draws for its eligible samples over all its
\* batches: every batch draws its counts first and then, sample by sample, the
\* energies; one segment per sample, in ascending sample order
SegmentsInOrder ==
    LET lam == poisson_mean
        lastOfBatch(i) == Min((((i - 1) \div BatchSize) + 1) * BatchSize, num_cells)
        first == [i \in 1..num_cells |->
                    entry_state + DrawsBefore(lam, lastOfBatch(i) + 1)
                        + Sum(SubSeq(number_of_photons, 1, i - 1))]
        ee == Concat([i \in 1..num_cells |->
                        CellEnergies(kT[i], number_of_photons[i], first[i])])
    IN IF BinScale(self.ebins) = "log" THEN [j \in 1..Len(ee) |-> Pow10(ee[j])] ELSE ee

\* C17: in thermal photons mode the write cursor equals the sum of the counts
\* of all earlier eligible samples of the chunk, across batches; at every write
\* of cn energies the capacity, the initial one doubled some number of times,
\* is at least cursor + cn; the returned energies are the segments of the
\* active samples in ascending sample order.
WriteCursorFollowsCounts ==
    (IsThermal /\ mode = "photons") =>
        /\ pc \in {"cell", "grow", "resize", "write"} =>
              ei = Sum(SubSeq(number_of_photons, 1, ibegin + icell))
        /\ pc = "write" =>
              /\ Len(energies) >= ei + cell_n[icell + 1]
              /\ Len(energies) = num_photons_max
              /\ \E j \in 0..(ei + cell_n[icell + 1]) :
                    num_photons_max = initial_capacity * Ipow(2, j)
        /\ IsPopulation => result.energies = SegmentsInOrder

\* a write in the second batch of a chunk, after the buffer has grown
WitnessWriteCursor ==
    /\ IsThermal /\ mode = "photons" /\ pc = "write"
    /\ ibegin = BatchSize /\ ei > BatchSize \div 2
    /\ num_photons_max > initial_capacity

\* C18: each of the three spectral components may be none and an absent one
\* contributes zero: the composition never fails, and the spectrum of a chunk
\* is the sum over its samples of continuum + metallicity*metal shape + sum
\* over the trace elements of abundance*element shape, times the emission.
AbsentComponentContributesZero ==
    (IsThermal /\ pc = "done" /\ LimitsPresent) =>
        /\ result.kind # "raise"
        /\ (mode = "spectrum" /\ num_cells > 0) =>
              result.data =
                [b \in 1..Nchan |->
                    Sum([i \in 1..num_cells |->
                        cell_nrm[i] *
                          ((IF self.spectral_model.cspec THEN Cspec(kT[i])[b] ELSE 0)
                         + (IF self.spectral_model.mspec
                            THEN self.Zmet.v * Mspec(kT[i])[b] ELSE 0)
                         + (IF self.spectral_model.vspec
                            THEN Sum([j \in 1..self.num_var_elem |->
                                        self.var_elem[j].v * Vspec(kT[i])[j][b]])
                            ELSE 0))])]

\* C19: within one thermal call the eligible samples are processed as
\* consecutive batches in ascending order: every batch is a non-empty contiguous
\* slice of at most 100 eligible samples that starts where the one before it
\* ended, and the loop ends after ceil(n/100) batches that cover all n.
BatchesPartitionEligible ==
    IsThermal =>
        /\ \A j \in 1..Len(cks) :
              /\ cks[j][1] = IF j = 1 THEN 0 ELSE cks[j - 1][2]
              /\ cks[j][2] > cks[j][1]
              /\ cks[j][2] - cks[j][1] <= 100
              /\ cks[j][2] <= num_cells
        /\ (pc = "done" /\ result.kind # "raise") =>
              /\ Len(cks) = (num_cells + 99) \div 100
              /\ cks # <<>> => cks[Len(cks)][2] = num_cells

\* a finished call on 101 eligible samples: a full batch and a batch of one
WitnessBatches ==
    /\ IsThermal /\ pc = "done" /\ mode = "photons" /\ IsPopulation
    /\ cks = <<(<<0, 100>>), (<<100, 101>>)>>

\* C20: the power-law engine's spectrum mode returns, for any number of samples
\* and a constant or a per-sample alpha, one entry per energy bin, the sum over
\* the samples of emission times (emid/e0)^(-alpha_i), and make_spectrum
\* accumulates it over the chunks.
PlawSpectrumAggregates ==
    (self.engine = "powerlaw" /\ mode = "spectrum") =>
        /\ pc = "done" =>
              result = ArrayResult([b \in 1..Len(self.emid) |->
                          Sum([i \in 1..Len(chunk) |->
                              chunk[i].em * PlawShape(self.emid[b], PlawAlpha(i))])])
        /\ pc # "failed"

\* C21: in the line engine's spectrum mode with no broadening the call returns
\* an array and does not fail; every bin that receives flux has edges that
\* contain e0 (ebins[b] <= e0 <= ebins[b+1]), at most one bin receives flux
\* and the bins sum to the chunk's total emission when e0 is within
\* [ebins[0], ebins[-1]]; when e0 is outside that range every bin is zero.
LineFluxInContainingBin ==
    (self.engine = "line" /\ mode = "spectrum" /\ self.sigma = NoSigma) =>
        /\ pc # "failed"
        /\ pc = "done" =>
              /\ result.kind = "array"
              /\ LET eb == self.ebins
                     nbins == Len(eb) - 1
                     total == Sum([i \in 1..Len(chunk) |-> chunk[i].em])
                     lit == {b \in 1..nbins : result.data[b] # 0}
                 IN
                 /\ Len(result.data) = nbins
                 /\ \A b \in lit : eb[b] <= self.e0 /\ self.e0 <= eb[b + 1]
                 /\ Cardinality(lit) <= 1
                 /\ (eb[1] <= self.e0 /\ self.e0 <= eb[nbins + 1]) =>
                        Sum(result.data) = total

\* C22: in the power-law engine no sample's result involves a division by
\* zero, whatever its index: the Poisson means of the photons mode and the
\* entries of the photon_field and energy_field arrays are finite numbers,
\* for the indices 1 and 2 at which the closed forms are singular as well.
PlawNoDivisionByZero ==
    (self.engine = "powerlaw" /\ pc = "done") =>
        /\ mode = "photons" =>
              \A i \in 1..Len(poisson_mean) : poisson_mean[i] \notin {Inf, NaN}
        /\ mode \in {"photon_field", "energy_field"} =>
              /\ result.kind = "array"
              /\ \A i \in 1..Len(result.data) : result.data[i] \notin {Inf, NaN}

====
